---- MODULE Spec2Model ----
(***************************************************************************)
(* State-machine model of lettre's NetworkStream                           *)
(* (src/transport/smtp/client/net.rs): a socket2 socket, or one of the TLS *)
(* wrappers around it, behind one type, with connect over a list of        *)
(* resolved addresses and the in-place upgrade_tls.                        *)
(*                                                                         *)
(* One caller owns at most one NetworkStream at a time and calls its       *)
(* public methods one after the other.  The operating system, the resolver *)
(* and the TLS connectors are the environment: their answers are inputs    *)
(* drawn with \E.  The build (cargo features, debug assertions) is chosen  *)
(* once, in Init.                                                          *)
(***************************************************************************)
EXTENDS Integers, Sequences, FiniteSets, TLC

VARIABLES
    features,          \* cargo features of the build: subset of TlsFeatures
    debug_assertions,  \* TRUE in a build where debug_assert! is compiled in
    stream,            \* the NetworkStream: [tag, sock]; tag "NoStream" when none exists
    tcp_stream,        \* the local `tcp_stream` of upgrade_tls (line 170), NoSocket outside it
    tls_parameters,    \* the &TlsParameters of the upgrade_tls call in progress
    pc,                \* position of the caller: "idle", inside "upgrade_tls",
                       \* inside "connect" (at its upgrade_tls call), or "panicked"
    lastCall,          \* the last call made and what it returned
    upgrades,          \* history: how often this stream went from Tcp to a TLS variant
    failed_upgrade     \* history: upgrade_tls returned an error on this stream

vars == <<features, debug_assertions, stream, tcp_stream, tls_parameters, pc,
          lastCall, upgrades, failed_upgrade>>

----------------------------------------------------------------------------
\* Bounds of the model

\* longest sequence of addresses the resolver hands to connect
MaxCandidates == 3
\* largest byte count a read or a write reports
MaxBuf == 1

----------------------------------------------------------------------------
\* Values

TlsFeatures == {"native-tls", "rustls-tls"}

\* address families of an IpAddr
Families == {"V4", "V6"}

\* what happens when one candidate address is tried: Socket::new fails for
\* its address family, or connect_timeout is refused, times out, succeeds.
\* (The family only picks the Domain the socket is asked for, lines 94-98,
\* which nothing reads afterwards: a candidate is modelled by its outcome.)
Outcomes == {"ok", "refused", "timedout", "nosocket"}

CandidateAddress == [outcome : Outcomes]

RECURSIVE SeqsUpTo(_, _)
SeqsUpTo(S, n) ==
    IF n = 0 THEN {<<>>}
    ELSE LET shorter == SeqsUpTo(S, n - 1)
         IN  shorter \cup {Append(s, x) : s \in {t \in shorter : Len(t) = n - 1}, x \in S}

\* what server.to_socket_addrs() gives: an error, or the addresses in order
Resolved ==
    {[ok |-> FALSE, addrs |-> <<>>]}
        \cup {[ok |-> TRUE, addrs |-> a] : a \in SeqsUpTo(CandidateAddress, MaxCandidates)}

Durations == {"None", "Some"}
Shutdowns == {"Read", "Write", "Both"}
Domains == {"mail.example.com", "not a dns name"}

\* DNSNameRef::try_from_ascii_str accepts the domain
valid_dns_name(domain) == domain = "mail.example.com"

NoSocket ==
    [open |-> FALSE, connected |-> FALSE, peer |-> 0, local |-> "",
     read_timeout |-> "None", write_timeout |-> "None", shut |-> {}]

NoStream == [tag |-> "NoStream", sock |-> NoSocket]

NoTls == [connector |-> "", domain |-> ""]

NoError == [kind |-> "", msg |-> "", addr |-> 0, depth |-> 0]

\* an io::Error (or other source error) before it is wrapped
io_error(msg, addr) == [kind |-> "io", msg |-> msg, addr |-> addr, depth |-> 0]

\* error::connection: every call site builds the same kind of Error around its source
connection(e) == [kind |-> "Connection", msg |-> e.msg, addr |-> e.addr, depth |-> e.depth + 1]

\* the record of a call: the method, its arguments, the variant it found
\* (pre), what the environment answered (hs, log) and what it returned
Call(op, status) ==
    [op |-> op, status |-> status, err |-> NoError, n |-> 0, ret |-> FALSE,
     invoked |-> FALSE, hs |-> "", pre |-> stream.tag,
     peer |-> 0, port |-> 0, log |-> <<>>, tls |-> NoTls,
     server |-> [ok |-> FALSE, addrs |-> <<>>], timeout |-> "None", with_tls |-> FALSE]

----------------------------------------------------------------------------
\* InnerNetworkStream

Encrypted == {"NativeTls", "RustlsTls"}

\* the socket a wrapper gives back through get_ref(), or the Tcp socket itself
get_ref(inner) == inner.sock

is_encrypted_value(inner) ==
    CASE inner.tag = "Tcp" -> FALSE
      [] inner.tag = "NativeTls" -> TRUE
      [] inner.tag = "RustlsTls" -> TRUE
      [] OTHER -> FALSE

\* InnerNetworkStream::None arm of every method: debug_assert!(false, ..)
\* panics where debug assertions are compiled in, else the arm's value is returned
none_arm_panics == debug_assertions

----------------------------------------------------------------------------
\* connect: try_connect_timeout

\* the socket of lines 99-103 once connect_timeout has connected it to candidate i
new_socket(i) ==
    [open |-> TRUE, connected |-> TRUE, peer |-> i, local |-> "",
     read_timeout |-> "None", write_timeout |-> "None", shut |-> {}]

\* one pass of the loop body, as the log keeps it: the candidate and what
\* came of it
attempt(addr, i) == [addr |-> i, res |-> addr.outcome]

\* the value after the loop (lines 114-117)
all_failed(last_err) ==
    IF last_err.some THEN connection(last_err.err)
    ELSE connection(io_error("could not resolve to any address", 0))

\* Socket::new(..).map_err(error::connection)? : TRUE when the loop goes on
\* to connect_timeout, FALSE when the `?` returns the error from the function
socket_new_ok(addr) == addr.outcome # "nosocket"

\* connect_loop trying every candidate from i on, whatever the earlier ones
\* gave, and keeping the first that connected
connect_loop_no_stop(addrs, i, last_err, log) ==
    LET oks == {k \in i..Len(addrs) : addrs[k].outcome = "ok"}
        rest == [k \in 1..(Len(addrs) + 1 - i) |-> attempt(addrs[k + i - 1], k + i - 1)]
    IN  IF oks = {}
        THEN [ok |-> FALSE, sock |-> NoSocket, err |-> all_failed(last_err),
              log |-> log \o rest]
        ELSE [ok |-> TRUE,
              sock |-> new_socket(CHOOSE k \in oks : \A j \in oks : k <= j),
              err |-> NoError, log |-> log \o rest]

\* the for loop of lines 93-112, from candidate i on
RECURSIVE connect_loop(_, _, _, _)
connect_loop(addrs, i, last_err, log) ==
    IF i > Len(addrs)
    THEN [ok |-> FALSE, sock |-> NoSocket, err |-> all_failed(last_err), log |-> log]
    ELSE LET addr == addrs[i]
         IN  IF ~socket_new_ok(addr)
             THEN [ok |-> FALSE, sock |-> NoSocket,
                   err |-> connection(io_error("nosocket", i)),
                   log |-> Append(log, attempt(addr, i))]
             ELSE IF addr.outcome = "ok"
             THEN [ok |-> TRUE, sock |-> new_socket(i), err |-> NoError,
                   log |-> Append(log, attempt(addr, i))]
             ELSE connect_loop(addrs, i + 1,
                               [some |-> TRUE,
                                err |-> connection(io_error(addr.outcome, i))],
                               Append(log, attempt(addr, i)))

try_connect_timeout(server) ==
    IF ~server.ok
    THEN [ok |-> FALSE, sock |-> NoSocket,
          err |-> connection(io_error("to_socket_addrs", 0)), log |-> <<>>]
    ELSE connect_loop(server.addrs, 1, [some |-> FALSE, err |-> NoError], <<>>)

----------------------------------------------------------------------------
\* upgrade_tls

\* the TlsParameters a caller can build in this build: the connector is one
\* of the compiled-in kinds; "" stands for the parameters of a build with none
TlsParameterValues ==
    [connector : IF features = {} THEN {""} ELSE features, domain : Domains]

\* mem_replace_none with the socket left behind as well (a copy, not a move)
mem_replace_none_keeps(inner) == inner

\* line 170: what mem::replace(&mut self.inner, InnerNetworkStream::None)
\* leaves in self.inner; the old value, socket included, moves out
mem_replace_none(inner) == [tag |-> "None", sock |-> NoSocket]

\* upgrade_tls_arm with the Tcp arm also taken by the TLS variants
upgrade_tls_arm_reupgrade(tag) ==
    IF tag \in {"Tcp", "NativeTls", "RustlsTls"}
    THEN IF features = {} THEN "panic" ELSE "upgrade"
    ELSE "noop"

\* the match of upgrade_tls (lines 160-180) on the variant held
upgrade_tls_arm(tag) ==
    IF tag = "Tcp"
    THEN IF features = {} THEN "panic" ELSE "upgrade"
    ELSE "noop"

\* upgrade_tls_impl wrapping a new socket to the same peer, not the one passed in
upgrade_tls_impl_other_socket(sock, tls, hs) ==
    IF tls.connector = "native-tls"
    THEN IF hs = "ok"
         THEN [ok |-> TRUE, inner |-> [tag |-> "NativeTls", sock |-> new_socket(sock.peer)],
               err |-> NoError]
         ELSE [ok |-> FALSE, inner |-> NoStream,
               err |-> connection(io_error("handshake", sock.peer))]
    ELSE IF valid_dns_name(tls.domain)
         THEN [ok |-> TRUE, inner |-> [tag |-> "RustlsTls", sock |-> new_socket(sock.peer)],
               err |-> NoError]
         ELSE [ok |-> FALSE, inner |-> NoStream,
               err |-> connection(io_error("invalid dns name", 0))]

\* upgrade_tls_impl with the two variants built the wrong way round
upgrade_tls_impl_swapped(sock, tls, hs) ==
    IF tls.connector = "native-tls"
    THEN IF hs = "ok"
         THEN [ok |-> TRUE, inner |-> [tag |-> "RustlsTls", sock |-> sock], err |-> NoError]
         ELSE [ok |-> FALSE, inner |-> NoStream,
               err |-> connection(io_error("handshake", sock.peer))]
    ELSE IF valid_dns_name(tls.domain)
         THEN [ok |-> TRUE, inner |-> [tag |-> "NativeTls", sock |-> sock], err |-> NoError]
         ELSE [ok |-> FALSE, inner |-> NoStream,
               err |-> connection(io_error("invalid dns name", 0))]

\* upgrade_tls_impl: hs is what the native-tls handshake does on this socket
\* (the rustls arm only parses the domain: StreamOwned::new does no I/O).
\* On Err there is no InnerNetworkStream: the inner field is then a filler.
upgrade_tls_impl(sock, tls, hs) ==
    IF tls.connector = "native-tls"
    THEN IF hs = "ok"
         THEN [ok |-> TRUE, inner |-> [tag |-> "NativeTls", sock |-> sock], err |-> NoError]
         ELSE [ok |-> FALSE, inner |-> NoStream,
               err |-> connection(io_error("handshake", sock.peer))]
    ELSE IF valid_dns_name(tls.domain)
         THEN [ok |-> TRUE, inner |-> [tag |-> "RustlsTls", sock |-> sock], err |-> NoError]
         ELSE [ok |-> FALSE, inner |-> NoStream,
               err |-> connection(io_error("invalid dns name", 0))]

\* the connector succeeds on these parameters
connector_succeeds(tls, hs) ==
    IF tls.connector = "native-tls" THEN hs = "ok" ELSE valid_dns_name(tls.domain)

----------------------------------------------------------------------------
Init ==
    /\ features \in SUBSET TlsFeatures
    /\ debug_assertions \in BOOLEAN
    /\ stream = NoStream
    /\ tcp_stream = NoSocket
    /\ tls_parameters = NoTls
    /\ pc = "idle"
    /\ lastCall = [Call("", "") EXCEPT !.pre = "NoStream"]
    /\ upgrades = 0
    /\ failed_upgrade = FALSE

Build == UNCHANGED <<features, debug_assertions>>

\* a call that panics: the caller never gets control back
Panic(call) ==
    /\ pc' = "panicked"
    /\ lastCall' = call
    /\ Build
    /\ UNCHANGED <<stream, tcp_stream, tls_parameters, upgrades, failed_upgrade>>

\* the caller holds a stream and is between two calls
Holding == pc = "idle" /\ stream.tag # "NoStream"

\* the caller holds the Err of a connect that failed
HoldingErr ==
    pc = "idle" /\ stream.tag = "NoStream" /\ lastCall.op = "connect" /\ lastCall.status = "Err"

\* a call that returns to the caller
Return(call) ==
    /\ pc' = "idle"
    /\ lastCall' = call
    /\ Build
    /\ UNCHANGED <<tcp_stream, tls_parameters>>

History == UNCHANGED <<upgrades, failed_upgrade>>

\* Option<&TlsParameters>
TlsOption ==
    {[some |-> FALSE, v |-> NoTls]} \cup {[some |-> TRUE, v |-> t] : t \in TlsParameterValues}

----------------------------------------------------------------------------
\* NetworkStream::connect

\* line 176: `self.inner = Self::upgrade_tls_impl(..)?` assigns only when the
\* result is Ok; on Err the `?` returns first and inner stays as it is
upgrade_tls_assign(inner, r) == IF r.ok THEN r.inner ELSE inner

\* connect_upgraded without the `?`: the stream is returned whatever upgrade_tls said
connect_upgraded_kept(st, ok) == st

\* lines 129-132: the stream connect hands to its caller once upgrade_tls has
\* returned; NoStream when the `?` returned the error and dropped the stream
connect_upgraded(st, ok) == IF ok THEN st ELSE NoStream

\* the caller holds nothing and can ask for a stream
CanConnect == pc = "idle" /\ stream.tag = "NoStream" /\ ~HoldingErr

connect(server, timeout, tls) ==
    /\ CanConnect
    /\ IF timeout = "None"
       THEN Panic([Call("connect", "Panic") EXCEPT !.server = server, !.timeout = timeout,
                                                   !.with_tls = tls.some])
       ELSE LET r == try_connect_timeout(server)
                call(status) == [Call("connect", status) EXCEPT !.log = r.log,
                                     !.server = server, !.timeout = timeout,
                                     !.with_tls = tls.some]
            IN  IF ~r.ok
                THEN /\ Return([call("Err") EXCEPT !.err = r.err])
                     /\ UNCHANGED <<stream, upgrades, failed_upgrade>>
                ELSE IF ~tls.some
                THEN /\ Return([call("Ok") EXCEPT !.peer = r.sock.peer])
                     /\ stream' = [tag |-> "Tcp", sock |-> r.sock]
                     /\ upgrades' = 0
                     /\ failed_upgrade' = FALSE
                ELSE IF upgrade_tls_arm("Tcp") = "panic"
                THEN Panic(call("Panic"))
                ELSE /\ pc' = "connect"
                     /\ lastCall' = [call("Running") EXCEPT !.pre = "Tcp", !.tls = tls.v,
                                                             !.peer = r.sock.peer]
                     /\ stream' = mem_replace_none([tag |-> "Tcp", sock |-> r.sock])
                     /\ tcp_stream' = r.sock
                     /\ tls_parameters' = tls.v
                     /\ upgrades' = 0
                     /\ failed_upgrade' = FALSE
                     /\ Build

\* the caller lets go of what connect gave it: the stream, or the error
drop ==
    /\ Holding \/ HoldingErr
    /\ stream' = NoStream
    /\ Return(Call("drop", "Ok"))
    /\ upgrades' = 0
    /\ failed_upgrade' = FALSE

----------------------------------------------------------------------------
\* NetworkStream::upgrade_tls

\* lines 160-174: the match, and in the Tcp arm the mem::replace
upgrade_tls(tls) ==
    /\ Holding
    /\ LET arm == upgrade_tls_arm(stream.tag)
       IN  CASE arm = "panic" -> Panic([Call("upgrade_tls", "Panic") EXCEPT !.tls = tls])
             [] arm = "noop" ->
                   /\ Return([Call("upgrade_tls", "Ok") EXCEPT !.tls = tls])
                   /\ UNCHANGED stream
                   /\ History
             [] arm = "upgrade" ->
                   /\ pc' = "upgrade_tls"
                   /\ lastCall' = [Call("upgrade_tls", "Running") EXCEPT !.tls = tls]
                   /\ stream' = mem_replace_none(stream)
                   /\ tcp_stream' = get_ref(stream)
                   /\ tls_parameters' = tls
                   /\ Build
                   /\ History

\* lines 176-177 with upgrade_tls_impl, and the return to whoever called
\* upgrade_tls: the caller, or connect at line 130.  (The call is cut at the
\* hand-over of the socket to the connector; `&mut self` keeps every other
\* method out until it has returned.)
upgrade_tls_return(hs) ==
    /\ pc \in {"upgrade_tls", "connect"}
    /\ LET r == upgrade_tls_impl(tcp_stream, tls_parameters, hs)
           inner == upgrade_tls_assign(stream, r)
           status == IF r.ok THEN "Ok" ELSE "Err"
       IN  /\ stream' = IF pc = "connect" THEN connect_upgraded(inner, r.ok) ELSE inner
           /\ lastCall' = [lastCall EXCEPT !.status = status, !.err = r.err,
                                           !.invoked = TRUE,
                                           !.hs = IF tls_parameters.connector = "native-tls"
                                                  THEN hs ELSE ""]
           /\ upgrades' = IF r.ok /\ upgrades < 2 THEN upgrades + 1 ELSE upgrades
           /\ failed_upgrade' = (~r.ok /\ pc = "upgrade_tls")
    /\ pc' = "idle"
    /\ tcp_stream' = NoSocket
    /\ tls_parameters' = NoTls
    /\ Build

----------------------------------------------------------------------------
\* Dispatch over the variant held (peer_addr, shutdown, bind, is_encrypted,
\* the timeout setters, read, write, flush)

OsResults == {"ok", "err"}

\* the directions a Shutdown value closes
shutdown_dirs(how) == IF how = "Both" THEN {"Read", "Write"} ELSE {how}

\* the InnerNetworkStream::None arm of a method whose arm returns `value`
none_arm(op, value) ==
    IF none_arm_panics
    THEN Panic(Call(op, "Panic"))
    ELSE /\ Return(value)
         /\ UNCHANGED stream
         /\ History

peer_addr(os) ==
    /\ Holding
    /\ IF stream.tag = "None"
       THEN none_arm("peer_addr", [Call("peer_addr", "Ok") EXCEPT !.peer = 0, !.port = 80])
       ELSE /\ Return(IF os = "ok"
                      THEN [Call("peer_addr", "Ok") EXCEPT !.peer = get_ref(stream).peer]
                      ELSE [Call("peer_addr", "Err") EXCEPT !.err = io_error("peer_addr", 0)])
            /\ UNCHANGED stream
            /\ History

shutdown(how, os) ==
    /\ Holding
    /\ IF stream.tag = "None"
       THEN none_arm("shutdown", Call("shutdown", "Ok"))
       ELSE /\ Return(IF os = "ok"
                      THEN Call("shutdown", "Ok")
                      ELSE [Call("shutdown", "Err") EXCEPT !.err = io_error("shutdown", 0)])
            /\ stream' = IF os = "ok"
                         THEN [stream EXCEPT !.sock.shut = @ \cup shutdown_dirs(how)]
                         ELSE stream
            /\ History

bind(ip_addr, os) ==
    /\ Holding
    /\ IF stream.tag = "None"
       THEN none_arm("bind", Call("bind", "Ok"))
       ELSE /\ Return(IF os = "ok"
                      THEN Call("bind", "Ok")
                      ELSE [Call("bind", "Err") EXCEPT !.err = connection(io_error("bind", 0))])
            /\ stream' = IF os = "ok"
                         THEN [stream EXCEPT !.sock.local = ip_addr]
                         ELSE stream
            /\ History

is_encrypted ==
    /\ Holding
    /\ IF stream.tag = "None"
       THEN none_arm("is_encrypted", [Call("is_encrypted", "Ok") EXCEPT !.ret = FALSE])
       ELSE /\ Return([Call("is_encrypted", "Ok") EXCEPT !.ret = is_encrypted_value(stream)])
            /\ UNCHANGED stream
            /\ History

set_read_timeout(duration, os) ==
    /\ Holding
    /\ IF stream.tag = "None"
       THEN none_arm("set_read_timeout", Call("set_read_timeout", "Ok"))
       ELSE /\ Return(IF os = "ok"
                      THEN Call("set_read_timeout", "Ok")
                      ELSE [Call("set_read_timeout", "Err")
                                EXCEPT !.err = io_error("set_read_timeout", 0)])
            /\ stream' = IF os = "ok"
                         THEN [stream EXCEPT !.sock.read_timeout = duration]
                         ELSE stream
            /\ History

set_write_timeout(duration, os) ==
    /\ Holding
    /\ IF stream.tag = "None"
       THEN none_arm("set_write_timeout", Call("set_write_timeout", "Ok"))
       ELSE /\ Return(IF os = "ok"
                      THEN Call("set_write_timeout", "Ok")
                      ELSE [Call("set_write_timeout", "Err")
                                EXCEPT !.err = io_error("set_write_timeout", 0)])
            /\ stream' = IF os = "ok"
                         THEN [stream EXCEPT !.sock.write_timeout = duration]
                         ELSE stream
            /\ History

\* read, write: the transport reports n bytes, or an error
read(os, n) ==
    /\ Holding
    /\ IF stream.tag = "None"
       THEN none_arm("read", [Call("read", "Ok") EXCEPT !.n = 0])
       ELSE /\ Return(IF os = "ok"
                      THEN [Call("read", "Ok") EXCEPT !.n = n]
                      ELSE [Call("read", "Err") EXCEPT !.err = io_error("read", 0)])
            /\ UNCHANGED stream
            /\ History

write(os, n) ==
    /\ Holding
    /\ IF stream.tag = "None"
       THEN none_arm("write", [Call("write", "Ok") EXCEPT !.n = 0])
       ELSE /\ Return(IF os = "ok"
                      THEN [Call("write", "Ok") EXCEPT !.n = n]
                      ELSE [Call("write", "Err") EXCEPT !.err = io_error("write", 0)])
            /\ UNCHANGED stream
            /\ History

flush(os) ==
    /\ Holding
    /\ IF stream.tag = "None"
       THEN none_arm("flush", Call("flush", "Ok"))
       ELSE /\ Return(IF os = "ok"
                      THEN Call("flush", "Ok")
                      ELSE [Call("flush", "Err") EXCEPT !.err = io_error("flush", 0)])
            /\ UNCHANGED stream
            /\ History

----------------------------------------------------------------------------
Next ==
    \/ /\ CanConnect
       /\ \E server \in Resolved, timeout \in Durations, tls \in TlsOption :
             connect(server, timeout, tls)
    \/ drop
    \/ \E tls \in TlsParameterValues : upgrade_tls(tls)
    \/ \E hs \in {"ok", "failed"} : upgrade_tls_return(hs)
    \/ \E os \in OsResults : peer_addr(os)
    \/ \E how \in Shutdowns, os \in OsResults : shutdown(how, os)
    \/ \E ip_addr \in Families, os \in OsResults : bind(ip_addr, os)
    \/ is_encrypted
    \/ \E duration \in Durations, os \in OsResults : set_read_timeout(duration, os)
    \/ \E duration \in Durations, os \in OsResults : set_write_timeout(duration, os)
    \/ \E os \in OsResults, n \in 0..MaxBuf : read(os, n)
    \/ \E os \in OsResults, n \in 0..MaxBuf : write(os, n)
    \/ \E os \in OsResults : flush(os)

Spec == Init /\ [][Next]_vars

----------------------------------------------------------------------------
\* Properties

\* the last call has returned (or panicked): it is not still running
Returned == lastCall.status \in {"Ok", "Err", "Panic"}

\* the Encrypted variant a connector kind produces
variant_of(connector) == IF connector = "native-tls" THEN "NativeTls" ELSE "RustlsTls"

\* the candidates of the last connect that can be connected
Reachable(server) == {i \in 1..Len(server.addrs) : server.addrs[i].outcome = "ok"}

\* the last call was connect with a timeout, and it is over
TimedConnect == lastCall.op = "connect" /\ lastCall.timeout = "Some" /\ Returned

\* C1: between any two calls, the backend of the stream the caller holds is
\* Plain or one of the Encrypted variants, never InnerNetworkStream::None.
C1_BackendNeverNone ==
    Holding => stream.tag \in {"Tcp"} \cup Encrypted

\* C2: after upgrade_tls has failed on a stream, every read and every write on
\* it returns an error of kind StreamUnusable: no Ok value, no panic.
C2_FailedUpgradeIoFails ==
    (failed_upgrade /\ lastCall.op \in {"read", "write"})
        => (lastCall.status = "Err" /\ lastCall.err.kind = "StreamUnusable")

\* C3: upgrade_tls on a Plain stream whose connector succeeds returns Ok,
\* is_encrypted() goes from false to true, and the new variant is the one of
\* the connector's kind.
C3_UpgradeEncrypts ==
    (/\ lastCall.op \in {"upgrade_tls", "connect"}
     /\ lastCall.invoked
     /\ lastCall.pre = "Tcp"
     /\ connector_succeeds(lastCall.tls, lastCall.hs))
        => /\ lastCall.status = "Ok"
           /\ ~is_encrypted_value([tag |-> lastCall.pre])
           /\ is_encrypted_value(stream)
           /\ stream.tag = variant_of(lastCall.tls.connector)

C3_Witness ==
    /\ pc = "idle"
    /\ lastCall.op = "upgrade_tls"
    /\ lastCall.invoked
    /\ lastCall.pre = "Tcp"
    /\ connector_succeeds(lastCall.tls, lastCall.hs)
    /\ stream.tag = "NativeTls"

\* C4: upgrade_tls is idempotent: a call made right after another upgrade_tls
\* call with the same parameters does not invoke the connector, leaves the
\* stream as it is and returns what the first call returned.
C4_UpgradeIdempotent ==
    [][(/\ pc = "idle"
        /\ lastCall.op = "upgrade_tls"
        /\ lastCall'.op = "upgrade_tls"
        /\ lastCall'.tls = lastCall.tls)
          => (/\ pc' = "idle"
              /\ ~lastCall'.invoked
              /\ stream' = stream
              /\ lastCall'.status = lastCall.status)]_vars

\* C5: the backend goes from Plain to Encrypted at most once in the life of a
\* stream, and an Encrypted backend stays the Encrypted variant it is (so
\* is_encrypted() stays true) for as long as the stream lives.
C5_OneWayUpgrade ==
    [][/\ (stream.tag \in Encrypted /\ stream'.tag # "NoStream") => stream'.tag = stream.tag
       /\ (stream.tag \notin Encrypted /\ stream'.tag \in Encrypted) => upgrades' = 1]_vars

C5_Witness ==
    /\ pc = "idle"
    /\ stream.tag \in Encrypted
    /\ upgrades = 1
    /\ lastCall.op = "upgrade_tls"
    /\ lastCall.pre \in Encrypted

\* C6: when exactly one candidate of a non-empty sequence can be connected,
\* connect with a timeout and no TLS parameters returns a Plain stream connected
\* to that candidate, wherever it stands and however the others fail.
C6_OnlyReachableIsUsed ==
    (/\ TimedConnect
     /\ ~lastCall.with_tls
     /\ lastCall.server.ok
     /\ Cardinality(Reachable(lastCall.server)) = 1)
        => /\ lastCall.status = "Ok"
           /\ stream.tag = "Tcp"
           /\ get_ref(stream).peer \in Reachable(lastCall.server)

\* C7: when no candidate of a non-empty sequence can be connected, connect
\* with a timeout returns a connection error, and it is the error of the last
\* element of the sequence.
C7_LastErrorReturned ==
    (/\ TimedConnect
     /\ lastCall.server.ok
     /\ lastCall.server.addrs # <<>>
     /\ Reachable(lastCall.server) = {})
        => /\ lastCall.status = "Err"
           /\ lastCall.err.kind = "Connection"
           /\ lastCall.err.addr = Len(lastCall.server.addrs)

\* C8: when the target resolves to no address, connect attempts nothing and
\* fails with an error whose kind is not the kind of the error it returns when
\* every candidate failed.
C8_NoCandidatesIsItsOwnKind ==
    (/\ TimedConnect
     /\ lastCall.server.ok
     /\ lastCall.server.addrs = <<>>)
        => /\ lastCall.status = "Err"
           /\ lastCall.log = <<>>
           /\ lastCall.err.kind
                 # all_failed([some |-> TRUE, err |-> connection(io_error("refused", 1))]).kind

\* C9: connect without a timeout ends by returning a stream or an error: it
\* does not panic.
C9_NoTimeoutConnectReturns ==
    (lastCall.op = "connect" /\ lastCall.timeout = "None" /\ Returned)
        => lastCall.status \in {"Ok", "Err"}

\* C10: connect with TLS parameters returns only encrypted streams; when the
\* upgrade fails it returns the upgrade's error and no stream.
C10_ConnectWithTls ==
    (lastCall.op = "connect" /\ lastCall.with_tls /\ Returned)
        => /\ lastCall.status = "Ok" => is_encrypted_value(stream)
           /\ lastCall.status # "Ok" => stream = NoStream
           /\ (lastCall.invoked /\ ~connector_succeeds(lastCall.tls, lastCall.hs))
                 => /\ lastCall.status = "Err"
                    /\ lastCall.err.msg \in {"handshake", "invalid dns name"}

C10_Witness ==
    /\ pc = "idle"
    /\ lastCall.op = "connect"
    /\ lastCall.with_tls
    /\ lastCall.invoked
    /\ ~connector_succeeds(lastCall.tls, lastCall.hs)
    /\ lastCall.status = "Err"
    /\ stream = NoStream

\* C11: upgrade_tls on a Plain stream in a build with no TLS connector
\* returns an error of kind TlsUnsupported: it does not panic.
C11_NoConnectorIsAnError ==
    (/\ lastCall.op = "upgrade_tls"
     /\ lastCall.pre = "Tcp"
     /\ features = {}
     /\ Returned)
        => (lastCall.status = "Err" /\ lastCall.err.kind = "TlsUnsupported")

\* C12: is_encrypted() returns true exactly for the Encrypted variants, false
\* for Plain and false for a stream left by a failed upgrade, and it leaves the
\* stream as it found it.
C12_IsEncryptedAnswers ==
    (lastCall.op = "is_encrypted" /\ Returned)
        => /\ lastCall.status = "Ok"
           /\ lastCall.ret = (lastCall.pre \in Encrypted)
           /\ stream.tag = lastCall.pre

\* C13: bind is applied to a transport that is not connected yet, so that the
\* connect that follows is made from the bound address.
C13_BindBeforeConnect ==
    (lastCall.op = "bind" /\ lastCall.pre # "None" /\ Returned)
        => ~get_ref(stream).connected

\* C14: in one connect call the candidates are tried one at a time in the
\* resolver's order, each at most once, the next only after the one before has
\* failed, and none after the first that connected: never more attempts than
\* candidates.
C14_SequentialAttempts ==
    (TimedConnect /\ lastCall.server.ok)
        => LET log == lastCall.log
               addrs == lastCall.server.addrs
           IN  /\ Len(log) <= Len(addrs)
               /\ \A k \in 1..Len(log) : log[k].addr = k /\ log[k].res = addrs[k].outcome
               /\ \A k \in 1..(Len(log) - 1) : log[k].res # "ok"

C14_Witness ==
    /\ TimedConnect
    /\ lastCall.status = "Ok"
    /\ Len(lastCall.server.addrs) = 3
    /\ Len(lastCall.log) = 2
    /\ lastCall.log[1].res = "timedout"
    /\ lastCall.log[2].res = "ok"

\* C15: a failure on one candidate, in opening its socket or in connecting it,
\* does not end the iteration: when connect with a timeout fails to connect,
\* every candidate of the sequence has been attempted.
C15_FailureAfterAllTried ==
    (/\ TimedConnect
     /\ lastCall.server.ok
     /\ lastCall.status = "Err"
     /\ ~lastCall.invoked)
        => Len(lastCall.log) = Len(lastCall.server.addrs)

\* the places that hold the connected raw transport: the stream's backend,
\* and the local of upgrade_tls that is handed to the connector
Owners ==
    (IF stream.sock.open THEN {"inner"} ELSE {}) \cup (IF tcp_stream.open THEN {"connector"} ELSE {})

\* C16: the connected raw transport has exactly one owner at every step of
\* connect and upgrade_tls: the Plain backend, an Encrypted backend or, inside
\* the upgrade call only, the connector; and once upgrade_tls has returned Ok
\* the Plain variant does not hold it.
C16_ExclusiveOwner ==
    /\ Cardinality(Owners) <= 1
    /\ (stream.tag \in {"Tcp"} \cup Encrypted \/ pc \in {"upgrade_tls", "connect"})
          => Cardinality(Owners) = 1
    /\ "inner" \in Owners => stream.tag \in {"Tcp"} \cup Encrypted
    /\ "connector" \in Owners => pc \in {"upgrade_tls", "connect"}
    /\ (lastCall.op = "upgrade_tls" /\ lastCall.status = "Ok") => stream.tag # "Tcp"

C16_Witness ==
    /\ pc = "upgrade_tls"
    /\ Owners = {"connector"}
    /\ stream.tag = "None"
    /\ tcp_stream.local = "V4"

\* the methods that only dispatch to the transport
DispatchOps ==
    {"read", "write", "flush", "shutdown", "peer_addr", "bind",
     "set_read_timeout", "set_write_timeout"}

\* the step is a call of op that returned Ok
ReturnsOk(op) == lastCall'.op = op /\ lastCall'.status = "Ok"

\* C17: read, write, flush, shutdown, peer_addr, bind and the timeout setters
\* leave the variant (and is_encrypted()) as it was; on an Encrypted stream
\* shutdown, peer_addr, bind and the setters act on the socket inside the
\* wrapper, which is the socket the stream held before the upgrade.
C17_DispatchKeepsVariant ==
    [][/\ lastCall'.op \in DispatchOps
          => /\ stream'.tag = stream.tag
             /\ is_encrypted_value(stream') = is_encrypted_value(stream)
       /\ (lastCall'.op \in DispatchOps /\ stream.tag \in Encrypted)
          => /\ ReturnsOk("peer_addr") => lastCall'.peer = get_ref(stream).peer
             /\ ReturnsOk("shutdown")
                   => \E how \in Shutdowns :
                         get_ref(stream') = [get_ref(stream) EXCEPT !.shut = @ \cup shutdown_dirs(how)]
             /\ ReturnsOk("bind")
                   => \E ip_addr \in Families :
                         get_ref(stream') = [get_ref(stream) EXCEPT !.local = ip_addr]
             /\ ReturnsOk("set_read_timeout")
                   => \E d \in Durations :
                         get_ref(stream') = [get_ref(stream) EXCEPT !.read_timeout = d]
             /\ ReturnsOk("set_write_timeout")
                   => \E d \in Durations :
                         get_ref(stream') = [get_ref(stream) EXCEPT !.write_timeout = d]
       /\ (pc = "idle" /\ pc' = "upgrade_tls") => tcp_stream' = get_ref(stream)
       /\ (pc \in {"upgrade_tls", "connect"} /\ stream'.tag \in Encrypted)
          => get_ref(stream') = tcp_stream]_vars

C17_Witness ==
    /\ pc = "idle"
    /\ stream.tag = "RustlsTls"
    /\ lastCall.op = "shutdown"
    /\ lastCall.status = "Ok"
    /\ get_ref(stream).shut = {"Write"}
    /\ get_ref(stream).read_timeout = "Some"
    /\ get_ref(stream).local = "V6"

\* C18: after upgrade_tls has failed on a stream, the backend never becomes
\* Plain or Encrypted again, and no later call on the stream returns an Ok
\* value, which is what the same call returns on a healthy stream.
C18_FailedIsTerminal ==
    failed_upgrade
        => /\ stream.tag \notin {"Tcp"} \cup Encrypted
           /\ (lastCall.pre = "None" /\ Returned) => lastCall.status # "Ok"

\* the part of C18 that the code keeps: the backend stays None
C18_FailedStaysNone == failed_upgrade => stream.tag = "None"

\* C19: the error of a handshake that the connector rejected has a kind that
\* is neither the kind returned when every candidate failed to connect nor
\* the kind returned for zero candidates.
C19_HandshakeKindDistinct ==
    (lastCall.op \in {"upgrade_tls", "connect"} /\ lastCall.invoked /\ lastCall.status = "Err")
        => /\ lastCall.err.kind
                # all_failed([some |-> TRUE, err |-> io_error("refused", 1)]).kind
           /\ lastCall.err.kind
                # all_failed([some |-> FALSE, err |-> NoError]).kind

\* C20: whenever upgrade_tls returns Ok, is_encrypted() on the stream is true
\* in the state it returns in, whatever was called on the stream before.
C20_OkUpgradeIsEncrypted ==
    (lastCall.op = "upgrade_tls" /\ lastCall.status = "Ok" /\ pc = "idle")
        => is_encrypted_value(stream)

====
